---- MODULE Spec2Model ----
(***************************************************************************)
(* Model of ruby/command-t/match.c: calculate_match and recursive_match.   *)
(*                                                                         *)
(* Strings are sequences of ASCII codes; C index i is element i + 1.       *)
(* A long used as a bit mask is the set of the positions of its 1 bits.    *)
(* A double is an exact rational: inside one call a value counts units of  *)
(* max_score_per_char / FactorScale, and the returned score is a fraction  *)
(* num / den on a base: 0, NON_MATCH (-1e9), or a double found past the    *)
(* memo array.  Rounding of the doubles is not modelled.                   *)
(***************************************************************************)
EXTENDS Integers, Sequences, FiniteSets, TLC

\* ------------------------------------------------------------ bounds
MaxHay == 3
MaxNeedle == 2
SegLen == 3

\* ------------------------------------------------- character constants
CH_SPACE == 32
CH_DASH == 45
CH_DOT == 46
CH_SLASH == 47
CH_0 == 48
CH_9 == 57
CH_A == 65
CH_Z == 90
CH_UNDERSCORE == 95
CH_a == 97
CH_z == 122

\* '.', '/', 'A', 'a', 'o', '{'
HaystackAlphabet == {46, 47, 65, 97, 111, 123}
\* '.', '/', 'A', 'a', 'o'
NeedleAlphabet == {46, 47, 65, 97, 111}
\* 'a', 'b', 'c'
SegAlphabet == {97, 98, 99}

SeqsUpTo(S, n) == UNION {[1..k -> S] : k \in 0..n}

Haystacks == SeqsUpTo(HaystackAlphabet, MaxHay)
Needles == SeqsUpTo(NeedleAlphabet, MaxNeedle)

\* Two-segment paths "seg/seg" and needles of one segment's length.
LongHaystacks == {s1 \o <<CH_SLASH>> \o s2 : s1 \in [1..SegLen -> SegAlphabet], s2 \in [1..SegLen -> SegAlphabet]}
LongNeedles == [1..SegLen -> SegAlphabet]

\* ---------------------------------------------------------- helpers
At(s, i) == s[i + 1]

RECURSIVE Gcd(_, _)
Gcd(a, b) == IF b = 0 THEN a ELSE Gcd(b, a % b)

RECURSIVE LcmUpTo(_)
LcmUpTo(n) == IF n <= 1 THEN 1 ELSE LET l == LcmUpTo(n - 1) IN (l * n) \div Gcd(l, n)

\* The unit of a factor: every factor of a haystack of length hl is a whole
\* number of 1 / FactorScale(hl).
FactorScale(hl) == 20 * LcmUpTo(hl)

\* ------------------------------------------------------------ values
\* #define NON_MATCH -1e9 ; #define UNSET DBL_MAX
NON_MATCH == [k |-> "nonmatch", v |-> 0]
UNSET == [k |-> "unset", v |-> 0]
Zero == [k |-> "score", v |-> 0]
\* Doubles the code does not store in the cell it reads them from: what a cell
\* past the memo array can hold.  A contribution is above 0 and the contributions
\* of one call sum to at most 1, so a score of the call lies in (0, 1], and:
\* HUGE, a double above 1 (+inf included), stays above every score;
\* STALE_HI and STALE_LO, a double from -1 to 1 (a score an earlier call left
\* on the stack), stay above NON_MATCH; whether the sum with the contributions
\* beats a score of the call depends on the double: for STALE_HI it does (1.0
\* does), for STALE_LO it does not (-1.0 does not);
\* NEGATIVE, a double between NON_MATCH + 1 and -1, stays below every score and
\* above NON_MATCH and its sums;
\* NEAR, a double within 1 of NON_MATCH whose sum with a contribution is above
\* NON_MATCH, stays below every score (NON_MATCH + 1.0 is one, and beats every
\* sum NON_MATCH + contributions);
\* LOW, a double whose sum with a contribution is not above NON_MATCH (-inf
\* included);
\* NAN is a NaN.
HUGE == [k |-> "huge", v |-> 0]
STALE_HI == [k |-> "stale_hi", v |-> 0]
STALE_LO == [k |-> "stale_lo", v |-> 0]
NEGATIVE == [k |-> "negative", v |-> 0]
NEAR == [k |-> "near", v |-> 0]
LOW == [k |-> "low", v |-> 0]
NAN == [k |-> "nan", v |-> 0]

\* score_for_char + recursive_match(...): adding to NON_MATCH keeps a value
\* near -1e9 that is not NON_MATCH; DBL_MAX absorbs the addend, a NaN stays a
\* NaN, and the sum of a contribution and a double found past the memo array
\* is known by its kind only.
Add(c, r) == IF r.k \in {"score", "nonmatch"} THEN [k |-> r.k, v |-> c + r.v] ELSE r

\* new_score > score; every comparison with a NaN is false.
Gt(a, b) ==
    LET rank(x) == IF x.k = "low" THEN 0
                   ELSE IF x.k = "nonmatch" THEN 1
                   ELSE IF x.k = "near" THEN 2
                   ELSE IF x.k = "negative" THEN 3
                   ELSE IF x.k = "stale_lo" THEN 4
                   ELSE IF x.k = "score" THEN 5
                   ELSE IF x.k = "stale_hi" THEN 6
                   ELSE IF x.k = "huge" THEN 7
                   ELSE 8
    IN IF a.k = "nan" \/ b.k = "nan" THEN FALSE
       ELSE IF rank(a) # rank(b) THEN rank(a) > rank(b)
       ELSE IF a.k \in {"score", "nonmatch"} THEN a.v > b.v
       ELSE FALSE

\* What a cell past the memo array may hold when it is read as a double.  The
\* access is undefined: the cell is the array's padding, stale stack or another
\* object of the frame, so a call that reads it gets any double.  UNSET, 0.0 (a
\* small integer or a pointer read as a double is a denormal) and NON_MATCH are
\* the doubles themselves; each other value stands for the doubles the scan
\* treats as it treats that value.  Each cell holds its own value.
Garbage == {UNSET, HUGE, STALE_HI, Zero, STALE_LO, NEGATIVE, NEAR, NON_MATCH, LOW, NAN}

\* ------------------------------------------------------ recursive_match
IsUpper(c) == c >= CH_A /\ c <= CH_Z
IsLower(c) == c >= CH_a /\ c <= CH_z
IsDigit(c) == c >= CH_0 /\ c <= CH_9

\* d += 'a' - 'A'
Downcase(c) == IF IsUpper(c) THEN c + (CH_a - CH_A) ELSE c

\* i == 0 || haystack_p[i - 1] == '/', for a '.' at i
IsDotFile(haystack, i) ==
    At(haystack, i) = CH_DOT /\ (i = 0 \/ At(haystack, i - 1) = CH_SLASH)

\* never_show_dot_files || (!dot_search && !always_show_dot_files)
DotFileWall(m, c) ==
    m.never_show_dot_files \/ (c # CH_DOT /\ ~m.always_show_dot_files)

\* The factor of a match at i reached from haystack_idx, in units of 1 / fs.
Factor(haystack, fs, i, haystack_idx) ==
    LET distance == i - haystack_idx
    IN IF distance > 1
       THEN LET last == At(haystack, i - 1)
                curr == At(haystack, i)
            IN IF last = CH_SLASH THEN (9 * fs) \div 10
               ELSE IF last = CH_DASH \/ last = CH_UNDERSCORE \/ last = CH_SPACE \/ IsDigit(last)
                    THEN (8 * fs) \div 10
               ELSE IF IsLower(last) /\ IsUpper(curr) THEN (8 * fs) \div 10
               ELSE IF last = CH_DOT THEN (7 * fs) \div 10
               ELSE (3 * fs) \div (4 * distance)
       ELSE fs

\* &m->memo[needle_idx * m->needle_len + haystack_idx]
MemoIndex(m, haystack_idx, needle_idx) == needle_idx * m.needle_len + haystack_idx

\* *memoized = value
Store(st, idx, value) == [st EXCEPT !.memo[idx] = value]

RECURSIVE recursive_match(_, _, _, _)
RECURSIVE scan(_, _, _, _, _, _)

\* The for loop of recursive_match from position i with the best score so far.
scan(m, st, haystack_idx, needle_idx, i, score) ==
    LET idx == MemoIndex(m, haystack_idx, needle_idx)
        c == At(m.needle, needle_idx)
    IN IF i > m.rightmost_match_p[needle_idx]
       THEN [score |-> score, st |-> Store(st, idx, score)]
       ELSE LET raw == At(m.haystack, i)
                d == IF raw = CH_DOT THEN raw
                     ELSE IF IsUpper(raw) /\ ~m.case_sensitive THEN Downcase(raw)
                     ELSE raw
            IN IF IsDotFile(m.haystack, i) /\ DotFileWall(m, c)
               THEN [score |-> NON_MATCH, st |-> Store(st, idx, NON_MATCH)]
               ELSE IF c = d
               THEN LET score_for_char == Factor(m.haystack, m.fs, i, haystack_idx)
                        sub == recursive_match(m, st, i + 1, needle_idx + 1)
                        new_score == Add(score_for_char, sub.score)
                    IN IF Gt(new_score, score)
                       THEN IF ~m.compute_all_scorings
                            THEN [score |-> new_score, st |-> Store(sub.st, idx, new_score)]
                            ELSE scan(m, sub.st, haystack_idx, needle_idx, i + 1, new_score)
                       ELSE scan(m, sub.st, haystack_idx, needle_idx, i + 1, score)
               ELSE scan(m, st, haystack_idx, needle_idx, i + 1, score)

recursive_match(m, st, haystack_idx, needle_idx) ==
    IF needle_idx = m.needle_len
    THEN [score |-> Zero, st |-> st]
    ELSE IF needle_idx > haystack_idx
            \/ haystack_idx + (m.needle_len - needle_idx) > m.rightmost_match_p[m.needle_len - 1] + 1
    THEN [score |-> NON_MATCH, st |-> st]
    ELSE LET idx == MemoIndex(m, haystack_idx, needle_idx)
             st1 == [st EXCEPT !.touched = @ \cup {idx}]
         IN IF st.memo[idx] # UNSET
            THEN [score |-> st.memo[idx], st |-> st1]
            ELSE scan(m, st1, haystack_idx, needle_idx, haystack_idx, NON_MATCH)

\* ------------------------------------------------------ calculate_match
\* 1 << k, an int, widened to long by |=.  A count outside 0..31 is
\* undefined: the build either uses the low five bits of the count ("wrap32")
\* or yields 0 ("zero").  1 << 31 is INT_MIN, whose widening sets bits 31..63.
RECURSIVE ShiftBits(_, _)
ShiftBits(k, shift_ub) ==
    IF k >= 0 /\ k <= 30 THEN {k}
    ELSE IF k = 31 THEN 31..63
    ELSE IF shift_ub = "wrap32" THEN ShiftBits(k % 32, shift_ub)
    ELSE {}

\* The pre-scan: the backward loop over the haystack from position i.
RECURSIVE prescan(_, _, _, _, _, _, _, _)
prescan(haystack, needle, case_sensitive, compute_bitmasks, shift_ub, i, needle_idx, acc) ==
    IF i < 0 THEN [needle_idx |-> needle_idx, rightmost_match_p |-> acc.rightmost_match_p, mask |-> acc.mask]
    ELSE LET raw == At(haystack, i)
             lower == Downcase(raw)
             c == IF ~case_sensitive THEN lower ELSE raw
             mask == IF compute_bitmasks
                     THEN acc.mask \cup ShiftBits(lower - CH_a, shift_ub)
                     ELSE acc.mask
             hit == needle_idx >= 0 /\ c = At(needle, needle_idx)
         IN prescan(haystack, needle, case_sensitive, compute_bitmasks, shift_ub, i - 1,
                    IF hit THEN needle_idx - 1 ELSE needle_idx,
                    [rightmost_match_p |-> IF hit THEN [acc.rightmost_match_p EXCEPT ![needle_idx] = i]
                                           ELSE acc.rightmost_match_p,
                     mask |-> mask])

\* HasDotFile with the test for a '.' after a '/' forgotten.
HasDotFileFirstOnly(haystack) == Len(haystack) > 0 /\ At(haystack, 0) = CH_DOT

\* The empty needle's loop: some '.' begins a path segment.
HasDotFile(haystack) == \E i \in 0..(Len(haystack) - 1) : IsDotFile(haystack, i)

\* haystack_limit * needle_len - (needle_len * needle_len - needle_len)
MemoSize(haystack_limit, needle_len) ==
    haystack_limit * needle_len - (needle_len * needle_len - needle_len)

\* A returned double: num / den when base is "score" and NON_MATCH + num / den
\* when base is "nonmatch".  When a double found past the memo array is part of
\* the sum, the base is the range of the returned double: "huge" above 1,
\* "stale" from -1 to 2, "negative" between NON_MATCH + 1 and 0, "near" above
\* NON_MATCH and at most NON_MATCH + 2.
Score(base, num, den) == [base |-> base, num |-> num, den |-> den]

\* return score == NON_MATCH ? 0.0 : score, for the scorer's value
FinalScore(value, haystack_len, needle_len, fs) ==
    IF value = NON_MATCH THEN Score("score", 0, 1)
    ELSE Score(IF value.k \in {"stale_hi", "stale_lo"} THEN "stale" ELSE value.k,
               value.v * (haystack_len + needle_len),
               2 * haystack_len * needle_len * fs)

Returned(score, line, haystack_bitmask, touched, memo_size) ==
    [score |-> score, returned_at |-> line, haystack_bitmask |-> haystack_bitmask,
     touched |-> touched, memo_size |-> memo_size]

\* calculate_match; haystack_bitmask is the in/out parameter, and wild maps
\* cells past the memo array to what they hold (a cell it does not name is
\* taken to hold UNSET).  returned_at is the line of the return statement taken.
calculate_match(haystack, needle, case_sensitive, always_show_dot_files, never_show_dot_files, compute_all_scorings, needle_bitmask, haystack_bitmask, wild, shift_ub) ==
    LET haystack_len == Len(haystack)
        needle_len == Len(needle)
        compute_bitmasks == haystack_bitmask = {}
    IN IF needle_len = 0
       THEN IF ~always_show_dot_files /\ HasDotFile(haystack)
            THEN Returned(Score("score", 0, 1), 152, haystack_bitmask, {}, 0)
            ELSE Returned(Score("score", 1, 1), 211, haystack_bitmask, {}, 0)
       ELSE IF haystack_len > 0
       THEN IF haystack_bitmask # {} /\ (needle_bitmask \cap haystack_bitmask) # needle_bitmask
            THEN Returned(Score("score", 0, 1), 159, haystack_bitmask, {}, 0)
            ELSE LET ps == prescan(haystack, needle, case_sensitive, compute_bitmasks, shift_ub,
                                   haystack_len - 1, needle_len - 1,
                                   [rightmost_match_p |-> [n \in 0..(needle_len - 1) |-> -1], mask |-> {}])
                     out_bitmask == IF compute_bitmasks THEN ps.mask ELSE haystack_bitmask
                 IN IF ps.needle_idx # -1
                    THEN Returned(Score("score", 0, 1), 192, out_bitmask, {}, 0)
                    ELSE LET haystack_limit == ps.rightmost_match_p[needle_len - 1] + 1
                             memo_size == MemoSize(haystack_limit, needle_len)
                             fs == FactorScale(haystack_len)
                             m == [haystack |-> haystack, haystack_len |-> haystack_len,
                                   needle |-> needle, needle_len |-> needle_len,
                                   rightmost_match_p |-> ps.rightmost_match_p, fs |-> fs,
                                   always_show_dot_files |-> always_show_dot_files,
                                   never_show_dot_files |-> never_show_dot_files,
                                   case_sensitive |-> case_sensitive,
                                   compute_all_scorings |-> compute_all_scorings]
                             memo == [j \in 0..(needle_len * needle_len + haystack_len) |->
                                         IF j < memo_size \/ j \notin DOMAIN wild THEN UNSET ELSE wild[j]]
                             r == recursive_match(m, [memo |-> memo, touched |-> {}], 0, 0)
                         IN Returned(FinalScore(r.score, haystack_len, needle_len, fs), 211,
                                     out_bitmask, r.st.touched, memo_size)
       ELSE Returned(Score("score", 1, 1), 211, haystack_bitmask, {}, 0)

\* The needle signature the caller passes: the bits of the needle's letters,
\* folded to lower case.
NeedleMask(needle) ==
    {Downcase(needle[j]) - CH_a : j \in {x \in 1..Len(needle) : IsLower(Downcase(needle[x]))}}

\* ------------------------------------------------------ state machine
VARIABLES
    haystack,          \* the candidate path the caller scores
    haystack_bitmask,  \* the caller's signature of haystack (*haystack_bitmask)
    shift_ub,          \* what the build does with a shift count outside 0..31
    pc,                \* "idle": between calls; "returned": a call has returned
    call,              \* the arguments of the last call
    wild,              \* what the call found in each cell past the memo array it touched
    result             \* what the last call returned

vars == <<haystack, haystack_bitmask, shift_ub, pc, call, wild, result>>

NoCall == [needle |-> <<>>, case_sensitive |-> FALSE, always_show_dot_files |-> FALSE,
           never_show_dot_files |-> FALSE, compute_all_scorings |-> FALSE,
           needle_bitmask |-> {}, haystack_bitmask |-> {}]
NoWild == [j \in {} |-> UNSET]
NoResult == Returned(Score("score", 0, 1), 0, {}, {}, 0)

PastCells(r) == {j \in r.touched : j < 0 \/ j >= r.memo_size}
OutOfBounds(r) == PastCells(r) # {}

\* Every way a call can go.  A call that stays inside the memo array goes one
\* way.  A call that touches a cell past it finds some double there, and what it
\* finds decides which cells it touches next: w holds the cells settled so far.
RECURSIVE Runs(_, _)
Runs(a, w) ==
    LET r == calculate_match(a.haystack, a.needle, a.case_sensitive, a.always_show_dot_files,
                             a.never_show_dot_files, a.compute_all_scorings, a.needle_bitmask,
                             a.haystack_bitmask, w, a.shift_ub)
        fresh == PastCells(r) \ DOMAIN w
    IN IF fresh = {}
       THEN {[wild |-> [j \in PastCells(r) |-> w[j]], result |-> r]}
       ELSE UNION {Runs(a, [j \in DOMAIN w \cup fresh |-> IF j \in fresh THEN e[j] ELSE w[j]]) :
                      e \in [fresh -> Garbage]}

InitWith(H) ==
    /\ haystack \in H
    /\ haystack_bitmask = {}
    /\ shift_ub \in {"wrap32", "zero"}
    /\ pc = "idle"
    /\ call = NoCall
    /\ wild = NoWild
    /\ result = NoResult

Init == InitWith(Haystacks)

\* One call of calculate_match by the caller, who owns haystack_bitmask.
CalculateMatch(needle, case_sensitive, always_show_dot_files, never_show_dot_files, compute_all_scorings) ==
    /\ pc = "idle"
    /\ LET nb == NeedleMask(needle)
           a == [haystack |-> haystack, needle |-> needle, case_sensitive |-> case_sensitive,
                 always_show_dot_files |-> always_show_dot_files,
                 never_show_dot_files |-> never_show_dot_files,
                 compute_all_scorings |-> compute_all_scorings,
                 needle_bitmask |-> nb, haystack_bitmask |-> haystack_bitmask,
                 shift_ub |-> shift_ub]
       IN /\ call' = [needle |-> needle, case_sensitive |-> case_sensitive,
                      always_show_dot_files |-> always_show_dot_files,
                      never_show_dot_files |-> never_show_dot_files,
                      compute_all_scorings |-> compute_all_scorings,
                      needle_bitmask |-> nb, haystack_bitmask |-> haystack_bitmask]
          /\ \E o \in Runs(a, NoWild) :
                /\ result' = o.result
                /\ wild' = o.wild
                /\ haystack_bitmask' = o.result.haystack_bitmask
    /\ pc' = "returned"
    /\ UNCHANGED <<haystack, shift_ub>>

\* The caller keeps the signature and goes on to its next query.
NextQuery ==
    /\ pc = "returned"
    /\ pc' = "idle"
    /\ call' = NoCall
    /\ wild' = NoWild
    /\ result' = NoResult
    /\ UNCHANGED <<haystack, haystack_bitmask, shift_ub>>

Next ==
    \/ \E needle \in Needles, cs \in BOOLEAN, asd \in BOOLEAN, nsd \in BOOLEAN, cas \in BOOLEAN :
          CalculateMatch(needle, cs, asd, nsd, cas)
    \/ NextQuery

Spec == Init /\ [][Next]_vars

\* Two-segment paths scored with needles of a segment's length.
InitLong == InitWith(LongHaystacks)

NextLong ==
    \/ \E needle \in LongNeedles, cas \in BOOLEAN : CalculateMatch(needle, TRUE, TRUE, FALSE, cas)
    \/ NextQuery

SpecLong == InitLong /\ [][NextLong]_vars

\* The caller issues only empty queries.
NextEmpty ==
    \/ \E cs \in BOOLEAN, asd \in BOOLEAN, nsd \in BOOLEAN, cas \in BOOLEAN :
          CalculateMatch(<<>>, cs, asd, nsd, cas)
    \/ NextQuery

SpecEmpty == Init /\ [][NextEmpty]_vars

\* ------------------------------------------------- vocabulary of the claims
CallReturned == pc = "returned"
NeedleLen == Len(call.needle)
HaystackLen == Len(haystack)

IsZero(s) == s.base = "score" /\ s.num = 0
IsOne(s) == s.base = "score" /\ s.num = s.den
InUnitInterval(s) == s.base = "score" /\ s.num >= 0 /\ s.num <= s.den
Positive(s) == s.base = "huge" \/ (s.base = "score" /\ s.num > 0)
\* Fractions of one call share their denominator; the constants 0 and 1 do not.
SameScore(a, b) ==
    /\ a.base = b.base
    /\ IF a.den = b.den THEN a.num = b.num ELSE a.num * b.den = b.num * a.den
\* a >= b, for doubles the call computed from its own contributions
AtLeast(a, b) ==
    IF a.base # b.base THEN a.base = "score" /\ b.base = "nonmatch"
    ELSE IF a.den = b.den THEN a.num >= b.num
    ELSE a.num * b.den >= b.num * a.den

\* Some path segment of h begins with '.'.
SegmentBeginsWithDot(h) ==
    \E j \in 1..Len(h) : h[j] = 46 /\ (j = 1 \/ h[j - 1] = 47)

\* c with ASCII A-Z folded to lower case unless cs.
Folded(c, cs) == IF ~cs /\ c >= 65 /\ c <= 90 THEN c + 32 ELSE c
FoldedSeq(s, cs) == [j \in 1..Len(s) |-> Folded(s[j], cs)]

\* needle[n..] is a subsequence of haystack[h..], haystack letters folded unless cs.
RECURSIVE SubsequenceFrom(_, _, _, _, _)
SubsequenceFrom(needle, h, cs, hpos, npos) ==
    IF npos > Len(needle) THEN TRUE
    ELSE IF hpos > Len(h) THEN FALSE
    ELSE IF Folded(h[hpos], cs) = needle[npos]
         THEN SubsequenceFrom(needle, h, cs, hpos + 1, npos + 1)
         ELSE SubsequenceFrom(needle, h, cs, hpos + 1, npos)
IsSubsequence(needle, h, cs) == SubsequenceFrom(needle, h, cs, 1, 1)

SetMax(S) == CHOOSE x \in S : \A y \in S : y <= x

\* The best sum of factors over all strictly increasing position sequences that
\* match needle[n..] in haystack[h..] (C indices); -1 when there is none.
RECURSIVE BestFrom(_, _, _, _, _, _)
BestFrom(h, needle, cs, fs, hidx, nidx) ==
    IF nidx = Len(needle) THEN 0
    ELSE LET cands == {i \in hidx..(Len(h) - 1) :
                          /\ Folded(At(h, i), cs) = At(needle, nidx)
                          /\ BestFrom(h, needle, cs, fs, i + 1, nidx + 1) >= 0}
         IN IF cands = {} THEN -1
            ELSE SetMax({Factor(h, fs, i, hidx) + BestFrom(h, needle, cs, fs, i + 1, nidx + 1) : i \in cands})

BestScore(h, needle, cs) ==
    LET fs == FactorScale(Len(h))
    IN Score("score", BestFrom(h, needle, cs, fs, 0, 0) * (Len(h) + Len(needle)),
             2 * Len(h) * Len(needle) * fs)

\* The last call again with some arguments replaced.
Again(needle, compute_all_scorings, haystack_bitmask_in, g) ==
    calculate_match(haystack, needle, call.case_sensitive, call.always_show_dot_files,
                    call.never_show_dot_files, compute_all_scorings, NeedleMask(needle),
                    haystack_bitmask_in, g, shift_ub)

\* The last call made no access past the memo array: its behaviour is defined.
InBounds == wild = NoWild /\ ~OutOfBounds(result)

\* The letters (0 = 'a' .. 25 = 'z') that occur in h in either case.
LetterBits(h) == {k \in 0..25 : \E j \in 1..Len(h) : Folded(h[j], FALSE) = 97 + k}

\* ------------------------------------------------------------------ C1
\* C1: for a non-empty needle and a non-empty haystack the returned score lies
\* in [0, 1]; NON_MATCH, alone or with contributions added, is never returned.
\* Stated of the calls that stay inside the memo array, whose result is defined.
C1_ScoreInUnitInterval ==
    (CallReturned /\ NeedleLen > 0 /\ HaystackLen > 0 /\ InBounds)
    => InUnitInterval(result.score)

\* C1: a call that stayed inside the memo array returned NON_MATCH plus a
\* contribution.
C1_SentinelLeaked ==
    CallReturned /\ InBounds /\ result.score.base = "nonmatch"

\* ------------------------------------------------------------------ C2
\* C2: with exhaustive scoring and no dot-file wall, a non-empty needle that is a
\* subsequence of the haystack gets the maximum over all alignments of the sum
\* of the per-character contributions.  Stated of the calls that stay inside the
\* memo array, whose result is defined.
C2_ExhaustiveIsBest ==
    (/\ CallReturned
     /\ InBounds
     /\ call.compute_all_scorings
     /\ call.always_show_dot_files
     /\ ~call.never_show_dot_files
     /\ NeedleLen > 0
     /\ IsSubsequence(call.needle, haystack, call.case_sensitive))
    => SameScore(result.score, BestScore(haystack, call.needle, call.case_sensitive))

\* C2: an exhaustive call that stayed inside the memo array returned less than
\* the best alignment's score.
C2_BelowBestInBounds ==
    /\ CallReturned
    /\ call.compute_all_scorings
    /\ call.always_show_dot_files
    /\ ~call.never_show_dot_files
    /\ InBounds
    /\ result.returned_at = 211
    /\ ~AtLeast(result.score, BestScore(haystack, call.needle, call.case_sensitive))

\* ------------------------------------------------------------------ C3
\* C3 as stated: an empty needle scores 0 against every haystack.
C3_EmptyNeedleZero ==
    (CallReturned /\ NeedleLen = 0) => IsZero(result.score)

\* C3 amended: an empty needle scores 0 when always_show_dot_files is false and
\* some path segment begins with '.', and 1 otherwise.
C3_EmptyNeedleOneUnlessHidden ==
    (CallReturned /\ NeedleLen = 0)
    => IF ~call.always_show_dot_files /\ SegmentBeginsWithDot(haystack)
       THEN IsZero(result.score)
       ELSE IsOne(result.score)

\* C3: an empty query met a haystack whose '.' follows a '/', dot files not
\* always shown, and was rejected.
C3_HiddenSegmentRejected ==
    /\ CallReturned
    /\ NeedleLen = 0
    /\ ~call.always_show_dot_files
    /\ HaystackLen > 1
    /\ haystack[1] # 46
    /\ SegmentBeginsWithDot(haystack)
    /\ IsZero(result.score)

\* ------------------------------------------------------------------ C4
\* C4: a non-empty needle that is not a subsequence of the haystack (the empty
\* haystack included) scores exactly 0.
C4_NonSubsequenceZero ==
    (CallReturned /\ NeedleLen > 0 /\ ~IsSubsequence(call.needle, haystack, call.case_sensitive))
    => IsZero(result.score)

\* C4: a non-empty needle was scored 1 against the empty haystack.
C4_EmptyHaystackScoredOne ==
    CallReturned /\ NeedleLen > 0 /\ HaystackLen = 0 /\ IsOne(result.score)

\* ------------------------------------------------------------------ C5
\* C5: with the other arguments fixed, the score with exhaustive scoring is at
\* least the score without it.  Stated of the pairs of calls that both stay
\* inside the memo array.
C5_ExhaustiveNotLower ==
    (CallReturned /\ ~call.compute_all_scorings /\ InBounds)
    => LET e == Again(call.needle, TRUE, call.haystack_bitmask, NoWild)
       IN ~OutOfBounds(e) => AtLeast(e.score, result.score)

\* C5: neither run left the memo array, and the exhaustive one scored lower.
C5_ExhaustiveLowerInBounds ==
    /\ CallReturned
    /\ ~call.compute_all_scorings
    /\ InBounds
    /\ LET e == Again(call.needle, TRUE, call.haystack_bitmask, NoWild)
       IN ~OutOfBounds(e) /\ ~AtLeast(e.score, result.score)

\* ------------------------------------------------------------------ C6
\* C6: with never_show_dot_files, a haystack with a path segment that begins with
\* '.' scores exactly 0 for every non-empty needle.  Stated of the calls that stay
\* inside the memo array.
C6_NeverShowHidesDotFiles ==
    (/\ CallReturned
     /\ call.never_show_dot_files
     /\ NeedleLen > 0
     /\ SegmentBeginsWithDot(haystack)
     /\ InBounds)
    => IsZero(result.score)

\* C6: with never_show_dot_files, a haystack with a dot segment got a score
\* above 0 from a call that stayed inside the memo array.
C6_DotFileShown ==
    /\ CallReturned
    /\ call.never_show_dot_files
    /\ NeedleLen > 0
    /\ SegmentBeginsWithDot(haystack)
    /\ InBounds
    /\ Positive(result.score)

\* ------------------------------------------------------------------ C7
\* C7: a call that reuses the signature an earlier call left returns the score a
\* call with signature 0 returns, and returns 0 at the bitmask test when its
\* needle has a letter that is absent from the haystack.
C7_SignatureReuse ==
    (CallReturned /\ NeedleLen > 0 /\ HaystackLen > 0 /\ call.haystack_bitmask # {})
    => /\ SameScore(result.score, Again(call.needle, call.compute_all_scorings, {}, wild).score)
       /\ (NeedleMask(call.needle) \ LetterBits(haystack) # {}) => result.returned_at = 159

\* C7: a reused signature let a needle with a letter absent from the haystack
\* through to the pre-scan.
C7_AbsentLetterReachedPrescan ==
    /\ CallReturned
    /\ call.haystack_bitmask # {}
    /\ NeedleMask(call.needle) \ LetterBits(haystack) # {}
    /\ result.returned_at = 192

\* ------------------------------------------------------------------ C8
\* C8: without case sensitivity the score does not depend on the letter case of
\* the needle, and a needle equal to the haystack up to letter case, with no
\* dot-file wall in play, scores above 0.  Stated of the calls that stay inside
\* the memo array.
C8_NeedleCaseFolded ==
    (CallReturned /\ ~call.case_sensitive /\ NeedleLen > 0 /\ HaystackLen > 0 /\ InBounds)
    => /\ LET f == Again(FoldedSeq(call.needle, FALSE), call.compute_all_scorings,
                         call.haystack_bitmask, NoWild)
          IN ~OutOfBounds(f) => SameScore(result.score, f.score)
       /\ (/\ FoldedSeq(call.needle, FALSE) = FoldedSeq(haystack, FALSE)
           /\ ~SegmentBeginsWithDot(haystack))
          => Positive(result.score)

\* C8: a one-letter upper-case needle scored 0 against the same letter.
C8_UpperCaseNeedleRejected ==
    /\ CallReturned
    /\ ~call.case_sensitive
    /\ NeedleLen = 1
    /\ HaystackLen = 1
    /\ call.needle # haystack
    /\ FoldedSeq(call.needle, FALSE) = FoldedSeq(haystack, FALSE)
    /\ IsZero(result.score)

\* ------------------------------------------------------------------ C9
\* C9: after a call with a non-empty needle, a non-empty haystack and incoming
\* signature 0, bit k of the signature is set iff letter k occurs in the
\* haystack, and no other bit is set.  Stated of the build that sets no bit for
\* a shift count outside 0..31, the outcome most favourable to the claim.
C9_SignatureIsLetterSet ==
    (/\ CallReturned
     /\ NeedleLen > 0
     /\ HaystackLen > 0
     /\ call.haystack_bitmask = {}
     /\ shift_ub = "zero")
    => haystack_bitmask = LetterBits(haystack)

\* C9: a bit above 25 was set in a build that sets no bit for an undefined shift.
C9_BitAbove25 ==
    /\ CallReturned
    /\ call.haystack_bitmask = {}
    /\ shift_ub = "zero"
    /\ \E k \in haystack_bitmask : k > 25

\* ----------------------------------------------------------------- C10
\* C10: every memo cell recursive_match reads or writes has an index in
\* 0 .. memo_size - 1.
C10_MemoIndexInRange ==
    CallReturned => \A j \in result.touched : j >= 0 /\ j < result.memo_size

\* C10: a needle as long as its haystack reached a cell past the memo array.
C10_FullLengthNeedleOutOfBounds ==
    /\ CallReturned
    /\ NeedleLen = HaystackLen
    /\ NeedleLen > 1
    /\ OutOfBounds(result)

====
